---------------------------- MODULE Spec2Model ----------------------------
(***************************************************************************)
(* EcoTrack: the action submission flow (app/(tabs)/tracker.tsx and the    *)
(* agent client), distance resolution (src/lib/directions.ts, the          *)
(* distance picker, GPS tracking in app/lib/geo.ts) and the gamification   *)
(* engine (src/lib/gamification).                                          *)
(*                                                                         *)
(* JavaScript values are modelled as tagged records [t, v]; numbers are    *)
(* fixed point with five decimals (v = value * Scale), which holds the     *)
(* factor 2.20462 exactly.  Timestamps are counted in hours, not           *)
(* milliseconds, and the local time zone has a fixed UTC offset.           *)
(***************************************************************************)
EXTENDS Integers, Sequences, FiniteSets, TLC

VARIABLES
    \* ---- the store and the clock (shared)
    actions,        \* users/<uid>/actions: the records in push order
    now,            \* Date.now() / dayjs(), in hours since the epoch
    \* ---- gamification engine
    universe,       \* which family of stored records other writers produce
    stats,          \* the UserStats last returned by getUserStats
    \* ---- action submission flow
    AGENT_URL,      \* config.ts: EXPO_PUBLIC_AGENT_URL
    fbAgentUrl,     \* Firebase /config/agent_url: "none", "url" or "error"
    pc,             \* where logAction stands
    loading,        \* Tracker's loading flag
    sub,            \* the submission in progress
    estCalls,       \* axios.post calls made so far
    pushCalls,      \* push() calls made so far
    lastOutcome,    \* how the last finished submission ended
    showDistancePicker, \* Tracker's showDistancePicker flag
    currentActionType,  \* Tracker's currentActionType, "null" when null
    pickerClosedBy, \* the callback the picker last closed with: onConfirm or onCancel
    \* ---- distance resolution
    GOOGLE_MAPS_API_KEY, \* config.ts: EXPO_PUBLIC_GOOGLE_MAPS_API_KEY
    routeEnv,       \* fetchRoute's arguments and what the Directions lookup yields
    netCalls,       \* fetch() calls made by fetchRoute so far
    routeResult,    \* what the last fetchRoute call resolved with
    routeCount,     \* fetchRoute calls made so far
    encoded,        \* the argument decodePolyline is called with
    decoded,        \* what the decodePolyline calls made so far returned
    \* ---- the distance picker (DistancePicker component)
    visible,        \* the visible prop
    startPoint,     \* Null or the start coordinate
    endPoint,       \* Null or the end coordinate
    pickerDistance, \* the distance state: Null or a number of miles
    calculating,    \* the calculating flag
    pickingStart,   \* the pickingStart flag
    pendingCalcs,   \* calculateDistanceAsync calls waiting at their await
    confirmedWith,  \* what onConfirm was last called with, and the points shown then
    \* ---- GPS tracking (app/lib/geo.ts)
    trackingPoints, \* the module's trackingPoints buffer
    isTracking,     \* the module's isTracking flag
    updatesRegistered, \* whether expo-location delivers updates to the task
    locationEvent,  \* the event last handed to the background location task
    totalRead       \* what totalDistanceMeters() last returned

storeVars == <<actions, now>>
engineVars == <<universe, stats>>
flowVars ==
    <<AGENT_URL, fbAgentUrl, pc, loading, sub, estCalls, pushCalls, lastOutcome,
      showDistancePicker, currentActionType, pickerClosedBy>>
pickerVars ==
    <<visible, startPoint, endPoint, pickerDistance, calculating, pickingStart,
      pendingCalcs, confirmedWith>>
geoVars == <<trackingPoints, isTracking, updatesRegistered, locationEvent, totalRead>>
routeVars ==
    <<GOOGLE_MAPS_API_KEY, routeEnv, netCalls, routeResult, routeCount, encoded, decoded,
      pickerVars, geoVars>>
vars == <<storeVars, engineVars, flowVars, routeVars>>

-----------------------------------------------------------------------------
(* Bounds of the model *)

\* longest history of records with varied CO2 fields
MaxHistUnits == 2
\* longest history of records with varied timestamps
MaxHistDays == 3
\* submissions per run of the flow
MaxSubmissions == 1
\* fetchRoute calls per run
MaxRouteCalls == 2
\* legs of a route in a Directions response
MaxLegs == 2
\* characters of an encoded polyline
MaxEncodedLen == 4
\* decodePolyline calls per run
MaxDecodeCalls == 2
\* distance calculations of the picker waiting at their await at once
MaxPendingCalcs == 2
\* points the GPS buffer holds before the run stops feeding it
MaxTrackPoints == 3

-----------------------------------------------------------------------------
(* JavaScript values *)

\* fixed-point unit: a number x is held as x * Scale
Scale == 100000

N(n) == [t |-> "num", v |-> n]
NaN == [t |-> "nan", v |-> 0]
PInf == [t |-> "pinf", v |-> 0]
NInf == [t |-> "ninf", v |-> 0]
Undefined == [t |-> "undef", v |-> 0]
Null == [t |-> "null", v |-> 0]
JsTrue == [t |-> "true", v |-> 0]
JsFalse == [t |-> "false", v |-> 0]
EmptyStr == [t |-> "emptystr", v |-> 0]
\* a string that reads as the number n / Scale, such as "2.5"
NumStr(n) == [t |-> "numstr", v |-> n]
\* a string that reads as no number, such as "n/a"
TextStr == [t |-> "str", v |-> 0]
\* an object, such as {}
Obj == [t |-> "obj", v |-> 0]

\* typeof x === "number"
TypeofNumber(x) == x.t \in {"num", "nan", "pinf", "ninf"}

\* Number(x), and the conversion an arithmetic operator applies to its operand
ToNumber(x) ==
    CASE x.t \in {"num", "nan", "pinf", "ninf"} -> x
      [] x.t \in {"null", "false", "emptystr"} -> N(0)
      [] x.t = "true" -> N(Scale)
      [] x.t = "numstr" -> N(x.v)
      [] OTHER -> NaN

\* Number.isFinite(x): no conversion, a number that is neither NaN nor infinite
NumberIsFinite(x) == x.t = "num"

\* the truthiness of x
Truthy(x) ==
    /\ x.t \notin {"undef", "null", "false", "nan", "emptystr"}
    /\ ~(x.t = "num" /\ x.v = 0)

\* x || d
JsOr(x, d) == IF Truthy(x) THEN x ELSE d

\* a + b on two numbers
JsAdd(a, b) ==
    CASE a.t = "nan" \/ b.t = "nan" -> NaN
      [] a.t = "pinf" -> IF b.t = "ninf" THEN NaN ELSE PInf
      [] a.t = "ninf" -> IF b.t = "pinf" THEN NaN ELSE NInf
      [] b.t \in {"pinf", "ninf"} -> b
      [] OTHER -> N(a.v + b.v)

\* floor(n * k / d) for n >= 0, k >= 0 and d a multiple of 1000, computed in
\* two parts so that no intermediate product leaves 32 bits
MulDivNat(n, k, d) == (n * (k \div 1000) + (n * (k % 1000)) \div 1000) \div (d \div 1000)

\* n * k / d, rounded toward zero
MulDiv(n, k, d) == IF n >= 0 THEN MulDivNat(n, k, d) ELSE -MulDivNat(-n, k, d)

\* x * c for a positive finite constant c = k / Scale
JsMulConst(x, k) ==
    LET y == ToNumber(x)
    IN  IF y.t = "num" THEN N(MulDiv(y.v, k, Scale)) ELSE y

\* x * c for a positive finite constant c = k / 1000000
JsMulMillionths(x, k) ==
    LET y == ToNumber(x)
    IN  IF y.t = "num" THEN N(MulDiv(y.v, k, 1000000)) ELSE y

\* x / c for a positive integer c
JsDivInt(x, c) ==
    LET y == ToNumber(x)
    IN  IF y.t = "num" THEN N(IF y.v >= 0 THEN y.v \div c ELSE -((-y.v) \div c)) ELSE y

\* a >= b for a number a and a finite number b
JsGe(a, b) ==
    CASE a.t = "num" -> a.v >= b.v
      [] a.t = "pinf" -> TRUE
      [] OTHER -> FALSE

-----------------------------------------------------------------------------
(* Local calendar days: dayjs(ts).format("YYYY-MM-DD"), dayjs(str), diff *)

\* the device's UTC offset in hours
TzOffsetHours == 5

\* the local calendar day of a timestamp, counted in days since 1970-01-01
LocalDayNumber(ts) == (ts + TzOffsetHours) \div 24

\* the civil date <<year, month, day>> of a day number
CivilFromDays(dn) ==
    LET z == dn + 719468
        era == z \div 146097
        doe == z - era * 146097
        yoe == (doe - doe \div 1460 + doe \div 36524 - doe \div 146096) \div 365
        doy == doe - (365 * yoe + yoe \div 4 - yoe \div 100)
        mp == (5 * doy + 2) \div 153
        d == doy - (153 * mp + 2) \div 5 + 1
        m == IF mp < 10 THEN mp + 3 ELSE mp - 9
        y == yoe + era * 400 + (IF m <= 2 THEN 1 ELSE 0)
    IN  <<y, m, d>>

\* the day number of a civil date
DaysFromCivil(y0, m, d) ==
    LET y == IF m <= 2 THEN y0 - 1 ELSE y0
        era == y \div 400
        yoe == y - era * 400
        mp == IF m > 2 THEN m - 3 ELSE m + 9
        doy == (153 * mp + 2) \div 5 + d - 1
        doe == yoe * 365 + yoe \div 4 - yoe \div 100 + doy
    IN  era * 146097 + doe - 719468

\* "YYYY-MM-DD" as its eight digits, zero padded (the dashes stand at fixed
\* places and are left out)
FormatDigits(c) ==
    <<(c[1] \div 1000) % 10, (c[1] \div 100) % 10, (c[1] \div 10) % 10, c[1] % 10,
      c[2] \div 10, c[2] % 10, c[3] \div 10, c[3] % 10>>

\* dayjs(ts).format("YYYY-MM-DD")
FormatDay(ts) == FormatDigits(CivilFromDays(LocalDayNumber(ts)))

\* dayjs("YYYY-MM-DD"): local midnight of that day, as a day number
ParseDay(s) ==
    DaysFromCivil(s[1] * 1000 + s[2] * 100 + s[3] * 10 + s[4], s[5] * 10 + s[6], s[7] * 10 + s[8])

\* a.diff(b, "day") for two local midnights
DiffDays(a, b) == a - b

\* the order of Array.prototype.sort() on strings of digits: a < b
RECURSIVE StrLess(_, _)
StrLess(a, b) ==
    IF b = <<>> THEN FALSE
    ELSE IF a = <<>> THEN TRUE
    ELSE IF Head(a) # Head(b) THEN Head(a) < Head(b)
    ELSE StrLess(Tail(a), Tail(b))

\* Array.from(set).sort().reverse()
RECURSIVE SortReverse(_)
SortReverse(S) ==
    IF S = {} THEN <<>>
    ELSE LET top == CHOOSE x \in S : \A y \in S \ {x} : StrLess(y, x)
         IN  <<top>> \o SortReverse(S \ {top})

-----------------------------------------------------------------------------
(* Gamification engine *)

\* pounds per kilogram, times Scale
KG_TO_LB == 220462

\* actionCo2Lb(a)
actionCo2Lb(a) ==
    IF TypeofNumber(a.co2_saved_lb)
    THEN a.co2_saved_lb
    ELSE JsMulConst(JsOr(a.co2_saved_kg, N(0)), KG_TO_LB)

\* BADGE_DEFINITIONS: id and threshold in pounds
BADGE_DEFINITIONS ==
    << [id |-> "starter", threshold |-> 1],
       [id |-> "committed", threshold |-> 5],
       [id |-> "champion", threshold |-> 10],
       [id |-> "hero", threshold |-> 25],
       [id |-> "legend", threshold |-> 50],
       [id |-> "guardian", threshold |-> 100] >>

\* calculateLevel counting levels from zero: Math.floor(total / 5)
calculateLevel_fromZero(totalCo2Saved) ==
    IF totalCo2Saved.t = "num"
    THEN N((totalCo2Saved.v \div (5 * Scale)) * Scale)
    ELSE totalCo2Saved

\* calculateLevel(totalCo2Saved): Math.floor(total / 5) + 1
calculateLevel(totalCo2Saved) ==
    IF totalCo2Saved.t = "num"
    THEN N((totalCo2Saved.v \div (5 * Scale) + 1) * Scale)
    ELSE totalCo2Saved

\* calculateStreak's loop with the gap test widened: a missed day is forgiven
RECURSIVE CountConsecutive_forgivesGap(_, _, _, _)
CountConsecutive_forgivesGap(sortedDays, i, currentDay, streak) ==
    IF i > Len(sortedDays) THEN streak
    ELSE LET previousDay == ParseDay(sortedDays[i])
             dayDiff == DiffDays(currentDay, previousDay)
         IN  IF dayDiff <= 2
             THEN CountConsecutive_forgivesGap(sortedDays, i + 1, previousDay, streak + 1)
             ELSE streak

\* the loop of calculateStreak over sortedDays[i..], currentDay being the
\* last day counted
RECURSIVE CountConsecutive(_, _, _, _)
CountConsecutive(sortedDays, i, currentDay, streak) ==
    IF i > Len(sortedDays) THEN streak
    ELSE LET previousDay == ParseDay(sortedDays[i])
             dayDiff == DiffDays(currentDay, previousDay)
         IN  IF dayDiff = 1
             THEN CountConsecutive(sortedDays, i + 1, previousDay, streak + 1)
             ELSE streak

\* calculateStreak without its test that the latest active day is today or
\* yesterday: the latest run is counted however old it is
calculateStreak_noRecencyTest(acts, t) ==
    IF Len(acts) = 0 THEN 0
    ELSE LET sortedDays == SortReverse({FormatDay(acts[i].ts) : i \in 1..Len(acts)})
         IN  CountConsecutive(sortedDays, 2, ParseDay(sortedDays[1]), 1)

\* calculateStreak(actions), evaluated at time t
calculateStreak(acts, t) ==
    IF Len(acts) = 0 THEN 0
    ELSE LET activeDays == {FormatDay(acts[i].ts) : i \in 1..Len(acts)}
             sortedDays == SortReverse(activeDays)
             today == FormatDay(t)
             yesterday == FormatDay(t - 24)
         IN  IF sortedDays[1] # today /\ sortedDays[1] # yesterday
             THEN 0
             ELSE CountConsecutive(sortedDays, 2, ParseDay(sortedDays[1]), 1)

\* actions.reduce((sum, action) => sum + actionCo2Lb(action), 0) from index i
RECURSIVE ReduceCo2(_, _, _)
ReduceCo2(acts, i, sum) ==
    IF i > Len(acts) THEN sum
    ELSE ReduceCo2(acts, i + 1, JsAdd(sum, actionCo2Lb(acts[i])))

\* calculateTodayCo2 comparing UTC days in place of local days
calculateTodayCo2_utcDay(acts, t) ==
    ReduceCo2(SelectSeq(acts, LAMBDA a : a.ts \div 24 = t \div 24), 1, N(0))

\* calculateTodayCo2(actions), evaluated at time t
calculateTodayCo2(acts, t) ==
    LET today == FormatDay(t)
    IN  ReduceCo2(SelectSeq(acts, LAMBDA a : FormatDay(a.ts) = today), 1, N(0))

\* calculateTotalCo2 summing the kilograms field alone, as loadLeaderboard does
RECURSIVE calculateTotalCo2_kgOnly(_)
calculateTotalCo2_kgOnly(acts) ==
    IF acts = <<>> THEN N(0)
    ELSE JsAdd(JsMulConst(JsOr(Head(acts).co2_saved_kg, N(0)), KG_TO_LB),
               calculateTotalCo2_kgOnly(Tail(acts)))

\* calculateTotalCo2(actions)
calculateTotalCo2(acts) == ReduceCo2(acts, 1, N(0))

\* calculateBadges marking only the highest badge reached as earned
calculateBadges_highestOnly(totalCo2Saved) ==
    [i \in 1..Len(BADGE_DEFINITIONS) |->
        [id |-> BADGE_DEFINITIONS[i].id,
         threshold |-> BADGE_DEFINITIONS[i].threshold,
         earned |-> /\ JsGe(totalCo2Saved, N(BADGE_DEFINITIONS[i].threshold * Scale))
                    /\ \A j \in 1..Len(BADGE_DEFINITIONS) :
                           BADGE_DEFINITIONS[j].threshold > BADGE_DEFINITIONS[i].threshold
                           => ~JsGe(totalCo2Saved, N(BADGE_DEFINITIONS[j].threshold * Scale))]]

\* calculateBadges with a strict comparison: totalCo2Saved > badge.threshold
calculateBadges_strictlyAbove(totalCo2Saved) ==
    [i \in 1..Len(BADGE_DEFINITIONS) |->
        [id |-> BADGE_DEFINITIONS[i].id,
         threshold |-> BADGE_DEFINITIONS[i].threshold,
         earned |-> /\ JsGe(totalCo2Saved, N(BADGE_DEFINITIONS[i].threshold * Scale))
                    /\ totalCo2Saved # N(BADGE_DEFINITIONS[i].threshold * Scale)]]

\* calculateBadges(totalCo2Saved)
calculateBadges(totalCo2Saved) ==
    [i \in 1..Len(BADGE_DEFINITIONS) |->
        [id |-> BADGE_DEFINITIONS[i].id,
         threshold |-> BADGE_DEFINITIONS[i].threshold,
         earned |-> JsGe(totalCo2Saved, N(BADGE_DEFINITIONS[i].threshold * Scale))]]

\* the UserStats getUserStats builds from the records it read
UserStatsOf(acts, t) ==
    LET totalCo2Saved == calculateTotalCo2(acts)
    IN  [totalCo2Saved |-> totalCo2Saved,
         todayCo2Saved |-> calculateTodayCo2(acts, t),
         streak |-> calculateStreak(acts, t),
         level |-> calculateLevel(totalCo2Saved),
         badges |-> calculateBadges(totalCo2Saved)]

\* getUserStats without its catch block: a failed read yields no UserStats
FallbackStats_noCatch ==
    [totalCo2Saved |-> Undefined, todayCo2Saved |-> Undefined, streak |-> -1,
     level |-> Undefined, badges |-> <<>>]

\* the UserStats getUserStats returns when reading the store fails
FallbackStats ==
    [totalCo2Saved |-> N(0), todayCo2Saved |-> N(0), streak |-> 0,
     level |-> N(Scale), badges |-> calculateBadges(N(0))]

\* no UserStats computed yet (Tracker's stats state is null)
NoStats == [totalCo2Saved |-> Undefined, todayCo2Saved |-> Undefined, streak |-> -1,
            level |-> Undefined, badges |-> <<>>]

-----------------------------------------------------------------------------
(* Leaderboard: the current user's total *)

\* asLb(e)
asLb(e) ==
    LET lb == IF TypeofNumber(e.total_co2_saved_lb) THEN e.total_co2_saved_lb
              ELSE IF TypeofNumber(e.total_co2_saved_kg)
                   THEN JsMulConst(e.total_co2_saved_kg, KG_TO_LB)
                   ELSE N(0)
    IN  IF NumberIsFinite(lb) THEN lb ELSE N(0)

\* userTotalKg after the forEach of loadLeaderboard over the records from i on
RECURSIVE SumKg(_, _, _)
SumKg(acts, i, userTotalKg) ==
    IF i > Len(acts) THEN userTotalKg
    ELSE SumKg(acts, i + 1,
               IF TypeofNumber(acts[i].co2_saved_kg)
               THEN JsAdd(userTotalKg, acts[i].co2_saved_kg)
               ELSE userTotalKg)

\* the total_co2_saved_lb of the entry "You" that loadLeaderboard builds from
\* the records it read
LeaderboardUserTotal(acts) ==
    asLb([total_co2_saved_lb |-> JsMulConst(SumKg(acts, 1, N(0)), KG_TO_LB),
          total_co2_saved_kg |-> Undefined])

-----------------------------------------------------------------------------
(* The store as the engine reads it: records this client wrote and records
   of other writers (earlier app versions, other tools on the same store) *)

\* local midnight of 2024-03-01, the day the model's clock stands in, in hours
Day0Start == 19783 * 24 - TzOffsetHours

\* the evaluation times: just after local midnight, midday, just before the next
NowSet == {Day0Start, Day0Start + 12, Day0Start + 23}

\* timestamps from four days before the clock's day to the day after it, at
\* local midday, and the two hours either side of the last local midnight
TsWindow == {Day0Start + 24 * d + 12 : d \in -4..1} \cup {Day0Start, Day0Start - 1}

\* what co2_saved_lb holds in records of other writers
LbValues == {Undefined, N(0), N(3 * Scale), N(5 * Scale), N(100 * Scale), N(-150000), NaN, PInf}

\* what co2_saved_kg holds in records of other writers
KgValues == {Undefined, N(2 * Scale), N(-1 * Scale), NaN, TextStr, NumStr(Scale), PInf}

EcoActionRecord(action, distance_mi, kg, lb, ts, by) ==
    [action |-> action, distance_mi |-> distance_mi, co2_saved_kg |-> kg,
     co2_saved_lb |-> lb, ts |-> ts, by |-> by]

\* the CO2 fields <<co2_saved_kg, co2_saved_lb>> of a well-formed record
\* stamped ts: written by this client (both units), by an earlier version
\* (kilograms only), or by a writer whose two fields disagree
FieldsAt(ts) ==
    CASE (ts \div 12) % 3 = 0 -> <<N(Scale), N(KG_TO_LB)>>
      [] (ts \div 12) % 3 = 1 -> <<N(2 * Scale), Undefined>>
      [] OTHER -> <<N(Scale), N(3 * Scale)>>

\* the records other writers put in the store, per family: "units" varies the
\* CO2 fields over well- and ill-formed values, "days" varies the timestamp
StoredRecords(u) ==
    IF u = "units"
    THEN {EcoActionRecord("recycled", N(0), kg, lb, Day0Start + 12, "other") :
              kg \in KgValues, lb \in LbValues}
    ELSE {EcoActionRecord("walk_trip", N(Scale), FieldsAt(ts)[1], FieldsAt(ts)[2], ts, "other") :
              ts \in TsWindow}

MaxHist(u) == IF u = "units" THEN MaxHistUnits ELSE MaxHistDays

NoStatsRead == [read |-> "none", of |-> <<>>, at |-> 0, val |-> NoStats]

\* another writer appends a record to users/<uid>/actions (a run follows the
\* store up to one read of it)
StoreWrite(rec) ==
    /\ stats.read = "none"
    /\ Len(actions) < MaxHist(universe)
    /\ actions' = Append(actions, rec)
    /\ UNCHANGED <<now, universe, stats, flowVars, routeVars>>

\* getUserStats(userId): read the records, compute the statistics
GetUserStats ==
    /\ stats.read = "none"
    /\ stats' = [read |-> "ok", of |-> actions, at |-> now, val |-> UserStatsOf(actions, now)]
    /\ UNCHANGED <<storeVars, universe, flowVars, routeVars>>

\* getUserStats(userId) when get(actionsRef) rejects
GetUserStatsFails ==
    /\ stats.read = "none"
    /\ stats' = [read |-> "failed", of |-> <<>>, at |-> now, val |-> FallbackStats]
    /\ UNCHANGED <<storeVars, universe, flowVars, routeVars>>

\* no submission made yet
NoSub ==
    [n |-> 0, actionType |-> "null", distance |-> Undefined, estOutcome |-> "none",
     body |-> "none", co2Field |-> Undefined, pushInvoked |-> FALSE, lenAtStart |-> 0]

FlowIdle ==
    /\ AGENT_URL = "https://agent.example"
    /\ fbAgentUrl = "none"
    /\ pc = "idle"
    /\ loading = FALSE
    /\ sub = NoSub
    /\ estCalls = 0
    /\ pushCalls = 0
    /\ lastOutcome = "none"
    /\ showDistancePicker = FALSE
    /\ currentActionType = "null"
    /\ pickerClosedBy = "none"

-----------------------------------------------------------------------------
(* Distance resolution: fetchRoute *)

\* the route endpoints, in degrees
Coords == {[latitude |-> 37, longitude |-> -122], [latitude |-> 38, longitude |-> -121]}

\* haversineDistance(from, to): the great-circle distance in miles.  The
\* trigonometry is left uninterpreted: the value is the term "Haversine of
\* (from, to)", distinct from every number a route's legs add up to
haversineDistance(from, to) == [t |-> "haversine", from |-> from, to |-> to]

\* miles per kilometre, in millionths
MI_PER_KM == 621371

\* a member of a leg (distance or duration): absent (Undefined), an object
\* without a value (Obj), or an object whose value is the number given; the
\* route's overview_polyline: absent (Undefined), an object without points
\* (Obj), or an object whose points are a non-empty string (TextStr)
LegDistances == {Undefined, Obj, N(1000 * Scale), N(2500 * Scale)}
LegDurations == {Undefined, N(600 * Scale)}
Legs == [distance : LegDistances, duration : LegDurations]
Polylines == {Undefined, Obj, TextStr}

\* sequences of legs of length 0..n
RECURSIVE LegSeqs(_)
LegSeqs(n) ==
    IF n = 0 THEN {<<>>}
    ELSE LegSeqs(n - 1) \cup {Append(q, l) : q \in {r \in LegSeqs(n - 1) : Len(r) = n - 1}, l \in Legs}

\* routes: with a legs array or without one
Routes ==
    [hasLegs : {TRUE}, legs : LegSeqs(MaxLegs), overview_polyline : Polylines]
        \cup [hasLegs : {FALSE}, legs : {<<>>}, overview_polyline : {TextStr}]

NoData == [status |-> "none", hasRoutes |-> FALSE, routes |-> <<>>]

\* what a lookup yields: fetch() rejects, response.json() rejects, the body is
\* JSON null, or the body is an object with a status and perhaps routes
Lookups ==
    {[kind |-> k, data |-> NoData] : k \in {"transport_error", "unparsable", "null_body"}}
        \cup {[kind |-> "json", data |-> [status |-> st, hasRoutes |-> FALSE, routes |-> <<>>]] :
                 st \in {"OK", "ZERO_RESULTS"}}
        \cup {[kind |-> "json", data |-> [status |-> st, hasRoutes |-> TRUE, routes |-> <<>>]] :
                 st \in {"OK", "ZERO_RESULTS"}}
        \cup {[kind |-> "json", data |-> [status |-> st, hasRoutes |-> TRUE, routes |-> <<r>>]] :
                 st \in {"OK", "REQUEST_DENIED"}, r \in Routes}

\* the value member of a leg's distance or duration object
ValueOf(member) == IF member.t = "num" THEN member ELSE Undefined

\* totalMeters after the loop over route.legs from leg i on; reading
\* legItem.distance.value throws when the leg has no distance object
RECURSIVE SumLegs(_, _, _)
SumLegs(legs, i, totalMeters) ==
    IF i > Len(legs) THEN [threw |-> FALSE, val |-> totalMeters]
    ELSE IF legs[i].distance.t = "undef" THEN [threw |-> TRUE, val |-> NaN]
    ELSE SumLegs(legs, i + 1, JsAdd(totalMeters, ToNumber(ValueOf(legs[i].distance))))

\* the { distance_mi, polyline } fetchRoute returns without a route
HaversineResult(origin, destination) ==
    [distance_mi |-> haversineDistance(origin, destination), polyline |-> EmptyStr,
     duration_s |-> Undefined]

\* fetchRoute without its test of the key: the lookup is always made
HasApiKey_ignoresConfig(key) == TRUE

\* !GOOGLE_MAPS_API_KEY is false: a key is configured
HasApiKey(key) == key # ""

\* the try block of fetchRoute on what the lookup yields: the RouteResult it
\* returns, or threw when any statement of it throws
TryRoute(lookup) ==
    LET data == lookup.data
        route == data.routes[1]
        sum == SumLegs(route.legs, 1, N(0))
        Threw == [threw |-> TRUE, res |-> NoData]
    IN  IF lookup.kind # "json" THEN Threw
        ELSE IF data.status # "OK" THEN Threw
        ELSE IF ~data.hasRoutes \/ Len(data.routes) = 0 THEN Threw
        ELSE IF ~route.hasLegs THEN Threw
        ELSE IF sum.threw THEN Threw
        ELSE IF route.overview_polyline.t = "undef" THEN Threw
        ELSE IF Len(route.legs) = 0 THEN Threw
        ELSE [threw |-> FALSE,
              res |-> [distance_mi |-> JsMulMillionths(JsDivInt(sum.val, 1000), MI_PER_KM),
                       polyline |-> IF route.overview_polyline.t = "str"
                                    THEN route.overview_polyline ELSE Undefined,
                       duration_s |-> ValueOf(route.legs[1].duration)]]

\* what fetchRoute(origin, destination, mode) resolves with
RouteResultOf(key, origin, destination, lookup) ==
    IF ~HasApiKey(key) THEN HaversineResult(origin, destination)
    ELSE IF TryRoute(lookup).threw THEN HaversineResult(origin, destination)
    ELSE TryRoute(lookup).res

NoRouteResult == [distance_mi |-> Undefined, polyline |-> Undefined, duration_s |-> Undefined]

\* fetchRoute(origin, destination, mode)
FetchRoute ==
    /\ routeCount < MaxRouteCalls
    /\ routeCount' = routeCount + 1
    /\ netCalls' = IF HasApiKey(GOOGLE_MAPS_API_KEY) THEN netCalls + 1 ELSE netCalls
    /\ routeResult' = RouteResultOf(GOOGLE_MAPS_API_KEY, routeEnv.origin,
                                    routeEnv.destination, routeEnv.lookup)
    /\ UNCHANGED <<GOOGLE_MAPS_API_KEY, routeEnv, encoded, decoded, pickerVars, geoVars,
                   storeVars, engineVars, flowVars>>

NoRouteEnv ==
    [origin |-> [latitude |-> 37, longitude |-> -122],
     destination |-> [latitude |-> 37, longitude |-> -122],
     mode |-> "walking", lookup |-> [kind |-> "transport_error", data |-> NoData]]

\* no polyline handed to decodePolyline
NoEncoded == [t |-> "undef", chars |-> <<>>]

PolylineIdle ==
    /\ encoded = NoEncoded
    /\ decoded = <<>>

\* nothing delivered through onConfirm yet
NoConfirm == [called |-> FALSE, distance |-> Null, startPoint |-> Null, endPoint |-> Null]

\* DistancePicker's useState initial values, the modal hidden
PickerIdle ==
    /\ visible = FALSE
    /\ startPoint = Null
    /\ endPoint = Null
    /\ pickerDistance = Null
    /\ calculating = FALSE
    /\ pickingStart = TRUE
    /\ pendingCalcs = <<>>
    /\ confirmedWith = NoConfirm

\* no event handed to the location task yet
NoLocationEvent == [kind |-> "none"]

\* geo.ts at module load
GeoIdle ==
    /\ trackingPoints = <<>>
    /\ isTracking = FALSE
    /\ updatesRegistered = FALSE
    /\ locationEvent = NoLocationEvent
    /\ totalRead = Undefined

TripIdle == PickerIdle /\ GeoIdle

FetchIdle ==
    /\ GOOGLE_MAPS_API_KEY = ""
    /\ routeEnv = NoRouteEnv
    /\ netCalls = 0
    /\ routeResult = NoRouteResult
    /\ routeCount = 0

RouteIdle == FetchIdle /\ PolylineIdle /\ TripIdle

RouteInit ==
    /\ GOOGLE_MAPS_API_KEY \in {"", "AIza-key"}
    /\ routeEnv \in [origin : Coords, destination : Coords, mode : {"walking", "bicycling"},
                     lookup : Lookups]
    /\ netCalls = 0
    /\ routeResult = NoRouteResult
    /\ routeCount = 0
    /\ PolylineIdle
    /\ TripIdle
    /\ actions = <<>>
    /\ now = Day0Start + 12
    /\ universe = "route"
    /\ stats = NoStatsRead
    /\ FlowIdle

RouteNext == FetchRoute

SpecRoute == RouteInit /\ [][RouteNext]_vars

-----------------------------------------------------------------------------
(* Distance resolution: decodePolyline *)

\* the char codes encoded polylines are made of: ' ' (below the offset 63),
\* '?' and '@' (last chunk of a value), '_', '`' and '~' (a chunk follows)
PolylineChars == {32, 63, 64, 95, 96, 126}

\* the strings of char codes of length 0..n
RECURSIVE CharStrings(_)
CharStrings(n) ==
    IF n = 0 THEN {<<>>}
    ELSE CharStrings(n - 1)
            \cup {Append(w, c) : w \in {x \in CharStrings(n - 1) : Len(x) = n - 1},
                                 c \in PolylineChars}

\* what decodePolyline is handed: a string, or undefined
EncodedInputs == {NoEncoded} \cup {[t |-> "str", chars |-> w] : w \in CharStrings(MaxEncodedLen)}

\* !encoded
EncodedFalsy(e) == e.t = "undef" \/ e.chars = <<>>

\* 2^n
RECURSIVE Pow2(_)
Pow2(n) == IF n = 0 THEN 1 ELSE 2 * Pow2(n - 1)

\* a | b for a >= 0 and b >= 0
RECURSIVE BitOr(_, _)
BitOr(a, b) ==
    IF a = 0 THEN b
    ELSE IF b = 0 THEN a
    ELSE (IF a % 2 = 1 \/ b % 2 = 1 THEN 1 ELSE 0) + 2 * BitOr(a \div 2, b \div 2)

\* the do-while loop without the index++ of a read past the end of the string
RECURSIVE ReadChunks_stopsAtEnd(_, _, _, _)
ReadChunks_stopsAtEnd(chars, index, shift, result) ==
    IF index > Len(chars) THEN [result |-> result, index |-> index]
    ELSE LET b == chars[index] - 63
             r == BitOr(result, (b % 32) * Pow2(shift))
         IN  IF b >= 32 THEN ReadChunks_stopsAtEnd(chars, index + 1, shift + 5, r)
             ELSE [result |-> r, index |-> index + 1]

\* the do-while loop of decodePolyline from position index (counted from 1):
\* b = encoded.charCodeAt(index++) - 63; result |= (b & 0x1f) << shift;
\* shift += 5; while (b >= 0x20).  Past the end of the string charCodeAt gives
\* NaN, b & 0x1f is 0 and b >= 0x20 is false.  With at most MaxEncodedLen + 1
\* characters read, shift stays below 32 and no bit leaves the 32-bit word.
RECURSIVE ReadChunks(_, _, _, _)
ReadChunks(chars, index, shift, result) ==
    IF index > Len(chars) THEN [result |-> result, index |-> index + 1]
    ELSE LET b == chars[index] - 63
             r == BitOr(result, (b % 32) * Pow2(shift))
         IN  IF b >= 32 THEN ReadChunks(chars, index + 1, shift + 5, r)
             ELSE [result |-> r, index |-> index + 1]

\* (result & 1) !== 0 ? ~(result >> 1) : result >> 1
ZigZag(result) == IF result % 2 # 0 THEN -(result \div 2) - 1 ELSE result \div 2

\* the while loop with lat = dlat and lng = dlng in place of += : every point
\* is its own delta
RECURSIVE DecodeLoop_deltasNotSummed(_, _, _, _, _)
DecodeLoop_deltasNotSummed(chars, index, lat, lng, coordinates) ==
    IF index > Len(chars) THEN coordinates
    ELSE LET first == ReadChunks(chars, index, 0, 0)
             second == ReadChunks(chars, first.index, 0, 0)
         IN  DecodeLoop_deltasNotSummed(chars, second.index, lat, lng,
                 Append(coordinates, [latitude |-> N(lat + ZigZag(first.result)),
                                      longitude |-> N(lng + ZigZag(second.result))]))

\* the while loop of decodePolyline from position index with lat and lng so far
RECURSIVE DecodeLoop(_, _, _, _, _)
DecodeLoop(chars, index, lat, lng, coordinates) ==
    IF index > Len(chars) THEN coordinates
    ELSE LET first == ReadChunks(chars, index, 0, 0)
             lat2 == lat + ZigZag(first.result)
             second == ReadChunks(chars, first.index, 0, 0)
             lng2 == lng + ZigZag(second.result)
         IN  DecodeLoop(chars, second.index, lat2, lng2,
                        Append(coordinates, [latitude |-> N(lat2), longitude |-> N(lng2)]))

\* decodePolyline with lat and lng kept across calls (module-level accumulators)
DecodeStart_carriesOver(earlier) ==
    IF earlier = <<>> \/ earlier[Len(earlier)] = <<>>
    THEN [lat |-> 0, lng |-> 0]
    ELSE LET last == earlier[Len(earlier)][Len(earlier[Len(earlier)])]
         IN  [lat |-> last.latitude.v, lng |-> last.longitude.v]

\* the lat and lng a call of decodePolyline starts from, whatever the earlier
\* calls returned: both are locals initialised to 0
DecodeStart(earlier) == [lat |-> 0, lng |-> 0]

\* decodePolyline(encoded), called after the calls that returned earlier
decodePolyline(e, earlier) ==
    IF EncodedFalsy(e) THEN <<>>
    ELSE DecodeLoop(e.chars, 1, DecodeStart(earlier).lat, DecodeStart(earlier).lng, <<>>)

\* decodePolyline(encoded)
DecodePolyline ==
    /\ Len(decoded) < MaxDecodeCalls
    /\ decoded' = Append(decoded, decodePolyline(encoded, decoded))
    /\ UNCHANGED <<encoded, GOOGLE_MAPS_API_KEY, routeEnv, netCalls, routeResult, routeCount,
                   pickerVars, geoVars, storeVars, engineVars, flowVars>>

PolylineInit ==
    /\ encoded \in EncodedInputs
    /\ decoded = <<>>
    /\ FetchIdle
    /\ TripIdle
    /\ actions = <<>>
    /\ now = Day0Start + 12
    /\ universe = "polyline"
    /\ stats = NoStatsRead
    /\ FlowIdle

PolylineNext == DecodePolyline

SpecPolyline == PolylineInit /\ [][PolylineNext]_vars

-----------------------------------------------------------------------------
(* The distance picker: app/modals/DistancePicker.tsx and src/lib/distance.ts *)

\* map coordinates the user can tap: points of one meridian, named by their
\* position along it in miles
MapPositions == {0, 1, 3}
MapCoordinates == {[latitude |-> m, longitude |-> 0] : m \in MapPositions}

\* src/lib/distance.ts haversineDistance(coord1, coord2), in miles: on one
\* meridian the great-circle distance is the difference of the positions
haversineDistanceMi(coord1, coord2) ==
    N((IF coord1.latitude >= coord2.latitude
       THEN coord1.latitude - coord2.latitude
       ELSE coord2.latitude - coord1.latitude) * Scale)

\* calculateDistance(start, end, mode): an async function that resolves
\* with haversineDistance(start, end)
calculateDistance(start, end) == haversineDistanceMi(start, end)

\* what the picker never touches
outsidePicker ==
    <<GOOGLE_MAPS_API_KEY, routeEnv, netCalls, routeResult, routeCount, encoded, decoded,
      geoVars, storeVars, engineVars, flowVars>>

\* the [visible] effect when the modal is hidden
VisibleEffectHidden ==
    /\ startPoint' = Null
    /\ endPoint' = Null
    /\ pickerDistance' = Null
    /\ pickingStart' = TRUE

\* the modal is shown: the [visible] effect only asks for the user's location
PickerShown ==
    /\ ~visible
    /\ visible' = TRUE
    /\ UNCHANGED <<startPoint, endPoint, pickerDistance, calculating, pickingStart,
                   pendingCalcs, confirmedWith, outsidePicker>>

\* the modal is hidden by its parent or by onCancel (close button, back)
PickerHidden ==
    /\ visible
    /\ visible' = FALSE
    /\ VisibleEffectHidden
    /\ UNCHANGED <<calculating, pendingCalcs, confirmedWith, outsidePicker>>

\* handleMapPress(event) and the [startPoint, endPoint] effect that follows
\* it: with both points set calculateDistanceAsync runs up to its await
HandleMapPress(coordinate) ==
    /\ visible
    /\ IF pickingStart
       THEN /\ startPoint' = coordinate
            /\ pickingStart' = FALSE
            /\ endPoint' = Null
            /\ pickerDistance' = Null
            /\ UNCHANGED <<calculating, pendingCalcs>>
       ELSE /\ endPoint' = coordinate
            /\ UNCHANGED <<startPoint, pickingStart, pickerDistance>>
            /\ IF startPoint # Null
               THEN /\ Len(pendingCalcs) < MaxPendingCalcs
                    /\ calculating' = TRUE
                    /\ pendingCalcs' =
                           Append(pendingCalcs, [start |-> startPoint, end |-> coordinate])
               ELSE UNCHANGED <<calculating, pendingCalcs>>
    /\ UNCHANGED <<visible, confirmedWith, outsidePicker>>

\* calculateDistanceAsync() after its await: setDistance(dist) and, in the
\* finally block, setCalculating(false)
CalculationCompletes(i) ==
    /\ i \in 1..Len(pendingCalcs)
    /\ pickerDistance' = calculateDistance(pendingCalcs[i].start, pendingCalcs[i].end)
    /\ calculating' = FALSE
    /\ pendingCalcs' = [k \in 1..(Len(pendingCalcs) - 1) |->
                            IF k < i THEN pendingCalcs[k] ELSE pendingCalcs[k + 1]]
    /\ UNCHANGED <<visible, startPoint, endPoint, pickingStart, confirmedWith, outsidePicker>>

\* handleReset(), behind a button disabled while no point is set
HandleReset ==
    /\ visible
    /\ startPoint # Null \/ endPoint # Null
    /\ startPoint' = Null
    /\ endPoint' = Null
    /\ pickerDistance' = Null
    /\ pickingStart' = TRUE
    /\ UNCHANGED <<visible, calculating, pendingCalcs, confirmedWith, outsidePicker>>

\* the Confirm button is disabled by !distance || calculating
ConfirmEnabled == Truthy(pickerDistance) /\ ~calculating

\* handleConfirm(): onConfirm(distance), on which the parent hides the modal
HandleConfirm ==
    /\ visible
    /\ ConfirmEnabled
    /\ pickerDistance # Null
    /\ confirmedWith' = [called |-> TRUE, distance |-> pickerDistance,
                         startPoint |-> startPoint, endPoint |-> endPoint]
    /\ visible' = FALSE
    /\ VisibleEffectHidden
    /\ UNCHANGED <<calculating, pendingCalcs, outsidePicker>>

PickerInit ==
    /\ PickerIdle
    /\ GeoIdle
    /\ FetchIdle
    /\ PolylineIdle
    /\ actions = <<>>
    /\ now = Day0Start + 12
    /\ universe = "picker"
    /\ stats = NoStatsRead
    /\ FlowIdle

PickerNext ==
    \/ PickerShown
    \/ PickerHidden
    \/ \E coordinate \in MapCoordinates : HandleMapPress(coordinate)
    \/ \E i \in 1..MaxPendingCalcs : CalculationCompletes(i)
    \/ HandleReset
    \/ HandleConfirm

SpecPicker == PickerInit /\ [][PickerNext]_vars

\* the distance the panel shows: distance !== null && !calculating
DistanceDisplayed == pickerDistance # Null /\ ~calculating

\* C29: whenever the picker displays a distance, both points are set and the
\* distance is the one between them; and what Confirm hands to onConfirm is
\* the distance between the two points shown at that moment.
C29_DisplayedDistanceIsCurrent ==
    /\ DistanceDisplayed =>
           /\ startPoint # Null
           /\ endPoint # Null
           /\ pickerDistance = haversineDistanceMi(startPoint, endPoint)
    /\ confirmedWith.called =>
           /\ confirmedWith.startPoint # Null
           /\ confirmedWith.endPoint # Null
           /\ confirmedWith.distance =
                  haversineDistanceMi(confirmedWith.startPoint, confirmedWith.endPoint)

-----------------------------------------------------------------------------
(* GPS tracking: app/lib/geo.ts *)

ACCURACY_THRESHOLD_M == 50
SPEED_THRESHOLD_MS == 12
JITTER_THRESHOLD_M == 3

\* a > b and a < b for a finite number b; the operand a is converted to a number
JsGt(a, b) ==
    LET y == ToNumber(a)
    IN  CASE y.t = "num" -> y.v > b.v
          [] y.t = "pinf" -> TRUE
          [] OTHER -> FALSE

JsLt(a, b) ==
    LET y == ToNumber(a)
    IN  CASE y.t = "num" -> y.v < b.v
          [] y.t = "ninf" -> TRUE
          [] OTHER -> FALSE

\* fixes of the receiver: points of one meridian, named by their position
\* along it in metres
TrackPositions == {0, 2, 3}
\* coords.accuracy and coords.speed as expo-location types them: number | null
AccuracyValues ==
    {Null, N(0), N(ACCURACY_THRESHOLD_M * Scale), N((ACCURACY_THRESHOLD_M + 1) * Scale)}
SpeedValues == {Null, N(SPEED_THRESHOLD_MS * Scale), N((SPEED_THRESHOLD_MS + 1) * Scale)}

\* what the task is called with: an error, no data, an empty locations
\* array, or locations whose first member is the fix
LocationEvents ==
    {[kind |-> k] : k \in {"error", "nodata", "empty"}}
    \cup {[kind |-> "location", latitude |-> m, longitude |-> 0, accuracy |-> a, speed |-> sp] :
            m \in TrackPositions, a \in AccuracyValues, sp \in SpeedValues}

\* geo.ts haversineDistance(lat1, lon1, lat2, lon2), in metres: on one
\* meridian the great-circle distance is the difference of the positions
haversineDistanceM(lat1, lon1, lat2, lon2) ==
    N((IF lat1 >= lat2 THEN lat1 - lat2 ELSE lat2 - lat1) * Scale)

\* the TrackPoint the task builds from a location (its timestamp, which
\* nothing in the module reads, is left out)
TrackPointOf(location) ==
    [latitude |-> location.latitude, longitude |-> location.longitude,
     accuracy |-> JsOr(location.accuracy, N(999 * Scale)), speed |-> location.speed]

AccuracyTooLow(point) == JsGt(point.accuracy, N(ACCURACY_THRESHOLD_M * Scale))

SpeedTooHigh(point) == point.speed # Null /\ JsGt(point.speed, N(SPEED_THRESHOLD_MS * Scale))

\* the jitter test measured from the first point of the buffer
IsJitter_fromFirst(point, points) ==
    /\ Len(points) > 0
    /\ JsLt(haversineDistanceM(points[1].latitude, points[1].longitude,
                               point.latitude, point.longitude),
            N(JITTER_THRESHOLD_M * Scale))

\* the jitter test: the point is less than 3 m from the last buffered point
IsJitter(point, points) ==
    /\ Len(points) > 0
    /\ JsLt(haversineDistanceM(points[Len(points)].latitude, points[Len(points)].longitude,
                               point.latitude, point.longitude),
            N(JITTER_THRESHOLD_M * Scale))

\* the buffer after the task has run on an event
BufferAfterTask(ev, points) ==
    IF ev.kind # "location" THEN points
    ELSE LET point == TrackPointOf(ev)
         IN  IF AccuracyTooLow(point) THEN points
             ELSE IF SpeedTooHigh(point) THEN points
             ELSE IF IsJitter(point, points) THEN points
             ELSE Append(points, point)

\* totalDistanceMeters()'s loop from index i on
RECURSIVE SumTrack(_, _, _)
SumTrack(points, i, totalDistance) ==
    IF i > Len(points) THEN totalDistance
    ELSE SumTrack(points, i + 1,
                  JsAdd(totalDistance,
                        haversineDistanceM(points[i - 1].latitude, points[i - 1].longitude,
                                           points[i].latitude, points[i].longitude)))

\* totalDistanceMeters()
totalDistanceMeters(points) ==
    IF Len(points) < 2 THEN N(0) ELSE SumTrack(points, 2, N(0))

\* what GPS tracking never touches
outsideGeo ==
    <<GOOGLE_MAPS_API_KEY, routeEnv, netCalls, routeResult, routeCount, encoded, decoded,
      pickerVars, storeVars, engineVars, flowVars>>

\* the background location task, run on one event
LocationTask(ev) ==
    /\ updatesRegistered
    /\ Len(trackingPoints) < MaxTrackPoints
    /\ locationEvent' = ev
    /\ trackingPoints' = BufferAfterTask(ev, trackingPoints)
    /\ UNCHANGED <<isTracking, updatesRegistered, totalRead, outsideGeo>>

\* startTracking(): permission refused, updates started, or
\* startLocationUpdatesAsync rejecting
StartTracking(outcome) ==
    /\ CASE outcome = "denied" ->
              /\ isTracking' = FALSE
              /\ UNCHANGED <<trackingPoints, updatesRegistered>>
         [] outcome = "started" ->
              /\ trackingPoints' = <<>>
              /\ isTracking' = TRUE
              /\ updatesRegistered' = TRUE
         [] outcome = "start_rejected" ->
              /\ trackingPoints' = <<>>
              /\ isTracking' = FALSE
              /\ UNCHANGED updatesRegistered
    /\ locationEvent' = NoLocationEvent
    /\ UNCHANGED <<totalRead, outsideGeo>>

\* stopTracking(): updates stopped, or one of its awaits rejecting
StopTracking(outcome) ==
    /\ isTracking \/ updatesRegistered
    /\ IF outcome = "stopped"
       THEN isTracking' = FALSE /\ updatesRegistered' = FALSE
       ELSE UNCHANGED <<isTracking, updatesRegistered>>
    /\ locationEvent' = NoLocationEvent
    /\ UNCHANGED <<trackingPoints, totalRead, outsideGeo>>

\* resetPoints()
ResetPoints ==
    /\ trackingPoints # <<>>
    /\ trackingPoints' = <<>>
    /\ locationEvent' = NoLocationEvent
    /\ UNCHANGED <<isTracking, updatesRegistered, totalRead, outsideGeo>>

\* a caller reads totalDistanceMeters()
ReadTotalDistance ==
    /\ totalRead' = totalDistanceMeters(trackingPoints)
    /\ locationEvent' = NoLocationEvent
    /\ UNCHANGED <<trackingPoints, isTracking, updatesRegistered, outsideGeo>>

GeoInit ==
    /\ GeoIdle
    /\ PickerIdle
    /\ FetchIdle
    /\ PolylineIdle
    /\ actions = <<>>
    /\ now = Day0Start + 12
    /\ universe = "geo"
    /\ stats = NoStatsRead
    /\ FlowIdle

GeoNext ==
    \/ \E ev \in LocationEvents : LocationTask(ev)
    \/ \E outcome \in {"denied", "started", "start_rejected"} : StartTracking(outcome)
    \/ \E outcome \in {"stopped", "stop_rejected"} : StopTracking(outcome)
    \/ ResetPoints
    \/ ReadTotalDistance

SpecGeo == GeoInit /\ [][GeoNext]_vars

\* every buffered point passed the accuracy and the speed filter, and
\* consecutive points are at least the jitter threshold apart
BufferFiltered ==
    /\ \A i \in 1..Len(trackingPoints) :
           /\ trackingPoints[i].accuracy.t = "num"
           /\ trackingPoints[i].accuracy.v <= ACCURACY_THRESHOLD_M * Scale
           /\ \/ trackingPoints[i].speed = Null
              \/ /\ trackingPoints[i].speed.t = "num"
                 /\ trackingPoints[i].speed.v <= SPEED_THRESHOLD_MS * Scale
    /\ \A i \in 2..Len(trackingPoints) :
           LET d == trackingPoints[i].latitude - trackingPoints[i - 1].latitude
           IN  d >= JITTER_THRESHOLD_M \/ -d >= JITTER_THRESHOLD_M

\* an event that is no location, or whose fix fails one of the three filters
FailsAFilter(ev, points) ==
    \/ ev.kind # "location"
    \/ ~(ev.accuracy.t = "num" /\ ev.accuracy.v <= ACCURACY_THRESHOLD_M * Scale)
    \/ ~(ev.speed = Null \/ ev.speed.v <= SPEED_THRESHOLD_MS * Scale)
    \/ /\ points # <<>>
       /\ LET d == ev.latitude - points[Len(points)].latitude
          IN  d < JITTER_THRESHOLD_M /\ -d < JITTER_THRESHOLD_M

\* a run of the task on a failing event leaves the buffer as it was
TaskStepFilters ==
    locationEvent'.kind # "none" /\ FailsAFilter(locationEvent', trackingPoints) =>
        trackingPoints' = trackingPoints

\* C30: every buffered point has accuracy <= 50 m and a speed that is null
\* or <= 12 m/s, consecutive buffered points are at least 3 m apart, a
\* location event that fails a filter leaves the buffer unchanged, and the
\* total distance of a buffer of fewer than two points is 0.
C30_BufferHoldsFilteredPoints ==
    /\ [](BufferFiltered /\ (Len(trackingPoints) < 2 => totalDistanceMeters(trackingPoints) = N(0)))
    /\ [][TaskStepFilters]_vars

\* a buffer of two points 3 m apart, after an event that was dropped as jitter
C30_Witness ==
    /\ Len(trackingPoints) = 2
    /\ locationEvent.kind = "location"
    /\ locationEvent.latitude = 2
    /\ trackingPoints[2].latitude = 3
    /\ trackingPoints[1].latitude = 0
    /\ totalRead = N(0)

\* C16: decodePolyline of an empty or absent string returns the empty sequence,
\* and every call on the same input returns the same sequence as the first.
C16_EmptyGivesEmptyAndCallsAgree ==
    /\ EncodedFalsy(encoded) => \A i \in 1..Len(decoded) : decoded[i] = <<>>
    /\ \A i, j \in 1..Len(decoded) : decoded[i] = decoded[j]

\* two calls on "`@ ": both return the one point (-17 / 1e5, -1 / 1e5)
C16_Witness ==
    /\ encoded = [t |-> "str", chars |-> <<96, 64, 32>>]
    /\ Len(decoded) = 2
    /\ decoded[1] = <<[latitude |-> N(-17), longitude |-> N(-1)]>>
    /\ decoded[2] = decoded[1]

\* C23: decodePolyline returns, for every string, a sequence of at most one
\* point per two characters (rounded up), malformed and truncated strings
\* included; and every run of its inner loop, the one that reads past the end
\* of the string included, leaves the read index greater than it found it.
C23_DecodeTerminatesIndexAdvances ==
    Len(decoded) >= 1 =>
        /\ \A k \in 1..Len(decoded) : 2 * Len(decoded[k]) <= Len(encoded.chars) + 1
        /\ \A i \in 1..(Len(encoded.chars) + 1) :
              /\ ReadChunks(encoded.chars, i, 0, 0).index > i
              /\ ReadChunks(encoded.chars, i, 0, 0).index <= Len(encoded.chars) + 2

\* "? _": a longitude that is a character below 63, then a latitude whose last
\* character has the continuation bit set and which no longitude follows
C23_Witness ==
    /\ encoded = [t |-> "str", chars |-> <<63, 32, 95>>]
    /\ Len(decoded) >= 1
    /\ decoded[1] = <<[latitude |-> N(0), longitude |-> N(-1)],
                      [latitude |-> N(0), longitude |-> N(-1)]>>

\* the values of an encoding: each a run of characters with the continuation
\* bit followed by one without it; current is the run read so far
RECURSIVE SplitValues(_, _)
SplitValues(chars, current) ==
    IF chars = <<>> THEN <<>>
    ELSE IF Head(chars) - 63 >= 32
         THEN SplitValues(Tail(chars), Append(current, Head(chars)))
         ELSE <<Append(current, Head(chars))>> \o SplitValues(Tail(chars), <<>>)

\* a well-formed encoding of n pairs: characters '?' to '~', the last one
\* without the continuation bit, 2n values in all
WellFormedEncoding(chars) ==
    /\ chars # <<>>
    /\ \A i \in 1..Len(chars) : chars[i] - 63 \in 0..63
    /\ chars[Len(chars)] - 63 < 32
    /\ Len(SplitValues(chars, <<>>)) % 2 = 0

\* the number a value's five-bit groups spell, least significant group first
RECURSIVE GroupsValue(_)
GroupsValue(group) ==
    IF group = <<>> THEN 0
    ELSE ((Head(group) - 63) % 32) + 32 * GroupsValue(Tail(group))

\* the signed delta a zig-zag number stands for: 0, -1, 1, -2, 2, ...
SignedDelta(u) == IF u % 2 = 0 THEN u \div 2 ELSE -((u + 1) \div 2)

\* the sum of the deltas of the values at places from, from + 2, ... up to last
RECURSIVE SumDeltas(_, _, _)
SumDeltas(values, from, last) ==
    IF from > last THEN 0
    ELSE SignedDelta(GroupsValue(values[from])) + SumDeltas(values, from + 2, last)

\* C24: for a well-formed encoding of n pairs decodePolyline returns n points,
\* the k-th being the sum of the first k latitude deltas and the sum of the
\* first k longitude deltas, each in units of 1e-5 degrees.
C24_DecodeGivesRunningSums ==
    WellFormedEncoding(encoded.chars) =>
        LET values == SplitValues(encoded.chars, <<>>)
        IN  \A c \in 1..Len(decoded) :
                /\ Len(decoded[c]) * 2 = Len(values)
                /\ \A k \in 1..Len(decoded[c]) :
                      /\ decoded[c][k].latitude = N(SumDeltas(values, 1, 2 * k - 1))
                      /\ decoded[c][k].longitude = N(SumDeltas(values, 2, 2 * k))

\* "@?@@": the pairs (-1, 0) and (-1, -1) give the points (-1, 0) and (-2, -1)
\* in units of 1e-5 degrees
C24_Witness ==
    /\ encoded = [t |-> "str", chars |-> <<64, 63, 64, 64>>]
    /\ Len(decoded) >= 1
    /\ decoded[1] = <<[latitude |-> N(-1), longitude |-> N(0)],
                      [latitude |-> N(-2), longitude |-> N(-1)]>>

-----------------------------------------------------------------------------
(* Properties of distance resolution *)

\* C3: with no routing credential configured, fetchRoute makes no network
\* call and resolves with the Haversine distance of its two arguments, an
\* empty polyline and no duration, whatever a lookup would have yielded.
C3_NoKeyNoNetworkHaversineOnly ==
    GOOGLE_MAPS_API_KEY = "" =>
        /\ netCalls = 0
        /\ routeCount > 0 =>
              /\ routeResult.distance_mi =
                     [t |-> "haversine", from |-> routeEnv.origin, to |-> routeEnv.destination]
              /\ routeResult.polyline = EmptyStr
              /\ routeResult.duration_s = Undefined

\* the route is one the lookup can be said to have found: it has legs, and
\* every leg has a numeric distance
WellFormedRoute(r) ==
    /\ r.hasLegs
    /\ Len(r.legs) >= 1
    /\ \A i \in 1..Len(r.legs) : r.legs[i].distance.t = "num"

\* the lookup succeeded: status OK and a first route that is well formed
LookupSucceeded(lookup) ==
    /\ lookup.kind = "json"
    /\ lookup.data.status = "OK"
    /\ lookup.data.hasRoutes
    /\ Len(lookup.data.routes) >= 1
    /\ WellFormedRoute(lookup.data.routes[1])

\* fetchRoute was called without a key, though the lookup would have found a
\* route with a polyline
C3_Witness ==
    /\ GOOGLE_MAPS_API_KEY = ""
    /\ routeCount = MaxRouteCalls
    /\ LookupSucceeded(routeEnv.lookup)
    /\ routeEnv.lookup.data.routes[1].overview_polyline = TextStr
    /\ routeEnv.origin # routeEnv.destination
    /\ routeResult.polyline = EmptyStr

\* C4: with a key configured, whenever the lookup does not succeed (transport
\* error, unparsable body, status other than OK, no route, malformed route)
\* fetchRoute resolves with the Haversine estimate and an empty polyline.
C4_EveryFailedLookupFallsBack ==
    (routeCount > 0 /\ GOOGLE_MAPS_API_KEY # "" /\ ~LookupSucceeded(routeEnv.lookup))
    => /\ routeResult.distance_mi =
              [t |-> "haversine", from |-> routeEnv.origin, to |-> routeEnv.destination]
       /\ routeResult.polyline = EmptyStr

\* the metres of all legs of a well-formed route
RECURSIVE TotalLegMeters(_)
TotalLegMeters(legs) ==
    IF legs = <<>> THEN 0 ELSE Head(legs).distance.v + TotalLegMeters(Tail(legs))

\* C5: with a key configured, whenever the lookup succeeds fetchRoute resolves
\* with the metres of all legs of the first route converted to miles, the first
\* leg's duration when it has one and the route's polyline when it has one;
\* a route without polyline or duration still gives the routed distance.
C5_SuccessfulLookupGivesRoutedDistance ==
    (routeCount > 0 /\ GOOGLE_MAPS_API_KEY # "" /\ LookupSucceeded(routeEnv.lookup))
    => LET route == routeEnv.lookup.data.routes[1]
       IN  /\ routeResult.distance_mi =
                  N(MulDiv(TotalLegMeters(route.legs) \div 1000, MI_PER_KM, 1000000))
           /\ route.legs[1].duration.t = "num" => routeResult.duration_s = route.legs[1].duration
           /\ route.overview_polyline.t = "str" => routeResult.polyline = route.overview_polyline

-----------------------------------------------------------------------------
(* The engine on the store's contents *)

EngineInit ==
    /\ actions = <<>>
    /\ universe \in {"units", "days"}
    /\ now \in (IF universe = "units" THEN {Day0Start + 12} ELSE NowSet)
    /\ stats = NoStatsRead
    /\ FlowIdle
    /\ RouteIdle

EngineNext ==
    \/ \E rec \in StoredRecords(universe) : StoreWrite(rec)
    \/ GetUserStats
    \/ GetUserStatsFails

SpecEngine == EngineInit /\ [][EngineNext]_vars

-----------------------------------------------------------------------------
(* Action submission flow: Tracker's handlers, logAction, getCo2Savings *)

ActionTypes == {"bike", "walk", "recycled", "vegetarian"}

\* the distances the picker confirms, in miles
PickerDistances == {N(150000)}

\* the values of EXPO_PUBLIC_AGENT_URL: unset, not a URL, a URL
AgentUrlValues == {"", "agent.example", "https://agent.example"}

\* AGENT_URL.startsWith("https://") || AGENT_URL.startsWith("http://")
StartsWithHttp(url) == url \in {"https://agent.example", "http://agent.example"}

\* getAgentUrl() returns a URL (otherwise it throws "Agent URL not configured")
AgentUrlResolved == (AGENT_URL # "" /\ StartsWithHttp(AGENT_URL)) \/ fbAgentUrl = "url"

\* how the POST to /co2/savings ends: a 2xx response, or one of axios' errors
EstOutcomes ==
    {"ok", "timeout", "http_detail", "http_502", "http_404", "http_other", "no_response"}

\* getCo2Savings with a catch block that logs the error and returns instead of
\* rethrowing it
AgentCallReturns_swallowsErrors(outcome) == TRUE

\* getCo2Savings returns response.data only when axios.post resolves, i.e. on a
\* 2xx status; every other outcome is rethrown from its catch block
AgentCallReturns(outcome) == outcome = "ok"

\* the error the catch block of getCo2Savings throws for what it caught: an
\* axios error (tested for timeout, then a response, then a request made), or
\* the error of getAgentUrl, which is no axios error
Co2SavingsCatch(outcome) ==
    CASE outcome = "timeout" -> "request_timed_out"
      [] outcome = "http_detail" -> "backend_detail"
      [] outcome = "http_502" -> "server_unreachable_status"
      [] outcome = "http_404" -> "endpoint_not_found"
      [] outcome = "http_other" -> "agent_returned_error_status"
      [] outcome = "no_response" -> "cannot_reach_agent"
      [] OTHER -> "failed_to_calculate"

\* getCo2Savings(request) on how the POST ends and what body a 2xx response has:
\* it returns response.data as axios hands it over (a body that is no JSON is
\* handed over as the string it is), or throws the error of its catch block
getCo2Savings(outcome, body) ==
    IF AgentCallReturns(outcome)
    THEN [threw |-> FALSE, error |-> "none", data |-> body]
    ELSE [threw |-> TRUE, error |-> Co2SavingsCatch(outcome), data |-> "none"]

\* the body of a 2xx response: a JSON object, JSON null, or text that is no JSON
BodyKinds == {"object", "null", "text"}

\* what the co2_saved_kg field of a response object holds (missing: undefined)
Co2FieldValues ==
    {N(Scale), N(0), N(-1 * Scale), PInf, Undefined, Null, TextStr, NumStr(250000),
     EmptyStr, JsTrue, Obj}

\* agentResponse.co2_saved_kg: a property read of null throws, of a string
\* gives undefined
ReadCo2Field(body, field) ==
    CASE body = "object" -> [threw |-> FALSE, val |-> field]
      [] body = "text" -> [threw |-> FALSE, val |-> Undefined]
      [] OTHER -> [threw |-> TRUE, val |-> Undefined]

\* logAction without its guard: every response is taken as valid
ValidCo2_noGuard(co2Kg) == TRUE

\* the guard of logAction on co2Kg = Number(agentResponse.co2_saved_kg)
ValidCo2(co2Kg) == NumberIsFinite(co2Kg)

\* the agent's name of an action type
AgentAction(actionType) ==
    CASE actionType = "bike" -> "bike_trip"
      [] actionType = "walk" -> "walk_trip"
      [] actionType = "recycled" -> "recycled"
      [] OTHER -> "ate_vegetarian"

\* the record an earlier version of logAction wrote: kilograms alone
BuiltRecord_kgOnly(actionType, distance, co2Kg, ts) ==
    EcoActionRecord(AgentAction(actionType), distance, co2Kg, Undefined, ts, "flow")

\* the record logAction hands to push()
BuiltRecord(actionType, distance, co2Kg, ts) ==
    EcoActionRecord(AgentAction(actionType), distance, co2Kg,
                    JsMulConst(co2Kg, KG_TO_LB), ts, "flow")

\* logAction with setLoading(false) as the last statement of its try block
LoadingAfterLogAction_tryOnly(outcome) == outcome # "saved"

\* loading after logAction has ended in the given way: its finally block runs
\* setLoading(false) whichever way that is
LoadingAfterLogAction(outcome) == FALSE

\* logAction(actionType, distance) up to its first await that leaves the
\* client: setLoading(true), getAgentUrl(), then axios.post is under way; when
\* no URL is configured getCo2Savings throws and logAction ends in its catch
\* and finally blocks
LogActionStart(actionType, distance) ==
    /\ sub.n < MaxSubmissions
    /\ IF AgentUrlResolved
       THEN /\ pc' = "estimating"
            /\ loading' = TRUE
            /\ estCalls' = estCalls + 1
            /\ UNCHANGED lastOutcome
       ELSE /\ pc' = "idle"
            /\ loading' = LoadingAfterLogAction("config_error")
            /\ lastOutcome' = "config_error"
            /\ UNCHANGED estCalls
    /\ sub' = [n |-> sub.n + 1, actionType |-> actionType, distance |-> distance,
               estOutcome |-> IF AgentUrlResolved THEN "pending" ELSE "config_error",
               body |-> "none", co2Field |-> Undefined, pushInvoked |-> FALSE,
               lenAtStart |-> Len(actions)]
    /\ UNCHANGED <<pushCalls, AGENT_URL, fbAgentUrl, storeVars, engineVars, routeVars>>

\* handleActionPress(actionType); the buttons are disabled while loading and
\* covered while the picker is shown
HandleActionPress(actionType) ==
    /\ pc = "idle" /\ ~loading /\ ~showDistancePicker
    /\ IF actionType \in {"bike", "walk"}
       THEN /\ currentActionType' = actionType
            /\ showDistancePicker' = TRUE
            /\ UNCHANGED <<AGENT_URL, fbAgentUrl, pc, loading, sub, estCalls, pushCalls,
                           lastOutcome, pickerClosedBy, storeVars, engineVars, routeVars>>
       ELSE /\ LogActionStart(actionType, N(0))
            /\ UNCHANGED <<showDistancePicker, currentActionType, pickerClosedBy>>

\* handleDistanceConfirm(distance)
HandleDistanceConfirm(distance) ==
    /\ showDistancePicker
    /\ showDistancePicker' = FALSE
    /\ currentActionType' = "null"
    /\ pickerClosedBy' = "onConfirm"
    /\ IF currentActionType # "null"
       THEN LogActionStart(currentActionType, distance)
       ELSE UNCHANGED <<AGENT_URL, fbAgentUrl, pc, loading, sub, estCalls, pushCalls,
                        lastOutcome, storeVars, engineVars, routeVars>>

\* handleDistanceCancel leaving currentActionType as it is
PendingAfterCancel_kept(pending) == pending

\* currentActionType after handleDistanceCancel: setCurrentActionType(null)
PendingAfterCancel(pending) == "null"

\* handleDistanceCancel()
HandleDistanceCancel ==
    /\ showDistancePicker
    /\ showDistancePicker' = FALSE
    /\ currentActionType' = PendingAfterCancel(currentActionType)
    /\ pickerClosedBy' = "onCancel"
    /\ UNCHANGED <<AGENT_URL, fbAgentUrl, pc, loading, sub, estCalls, pushCalls,
                   lastOutcome, storeVars, engineVars, routeVars>>

\* the POST ends and logAction runs on to its next await: on an error of
\* getCo2Savings, a body it cannot read or a value that fails the guard it ends
\* in catch and finally; otherwise it builds the record and calls push()
AgentResponds(outcome, body, field) ==
    /\ pc = "estimating"
    /\ LET read == ReadCo2Field(body, field)
           co2Kg == ToNumber(read.val)
           passes == AgentCallReturns(outcome) /\ ~read.threw /\ ValidCo2(co2Kg)
       IN  /\ sub' = [sub EXCEPT !.estOutcome = outcome,
                                 !.body = IF outcome = "ok" THEN body ELSE "none",
                                 !.co2Field = IF outcome = "ok" /\ body = "object"
                                              THEN field ELSE Undefined,
                                 !.pushInvoked = passes]
           /\ IF passes
              THEN /\ pc' = "pushing"
                   /\ pushCalls' = pushCalls + 1
                   /\ UNCHANGED <<loading, lastOutcome>>
              ELSE /\ pc' = "idle"
                   /\ loading' = LoadingAfterLogAction(IF outcome # "ok" THEN outcome
                                                        ELSE "invalid_co2")
                   /\ lastOutcome' = IF outcome # "ok" THEN outcome ELSE "invalid_co2"
                   /\ UNCHANGED pushCalls
    /\ UNCHANGED <<AGENT_URL, fbAgentUrl, estCalls, showDistancePicker, currentActionType,
                   pickerClosedBy, storeVars, engineVars, routeVars>>

\* push() resolves: the record is in the store, and logAction awaits loadData()
PushResolves ==
    /\ pc = "pushing"
    /\ actions' = Append(actions,
           BuiltRecord(sub.actionType, sub.distance,
                       ToNumber(ReadCo2Field(sub.body, sub.co2Field).val), now))
    /\ pc' = "reloading"
    /\ UNCHANGED <<now, AGENT_URL, fbAgentUrl, loading, sub, estCalls, pushCalls, lastOutcome,
                   showDistancePicker, currentActionType, pickerClosedBy, engineVars, routeVars>>

\* push() rejects: nothing is stored, logAction ends in catch and finally
PushRejects ==
    /\ pc = "pushing"
    /\ pc' = "idle"
    /\ loading' = LoadingAfterLogAction("push_failed")
    /\ lastOutcome' = "push_failed"
    /\ UNCHANGED <<AGENT_URL, fbAgentUrl, sub, estCalls, pushCalls, showDistancePicker,
                   currentActionType, pickerClosedBy, storeVars, engineVars, routeVars>>

\* loadData() completes (getUserStats never rejects) and logAction ends in finally
LoadDataCompletes(readOk) ==
    /\ pc = "reloading"
    /\ stats' = IF readOk
                THEN [read |-> "ok", of |-> actions, at |-> now,
                      val |-> UserStatsOf(actions, now)]
                ELSE [read |-> "failed", of |-> <<>>, at |-> now, val |-> FallbackStats]
    /\ pc' = "idle"
    /\ loading' = LoadingAfterLogAction("saved")
    /\ lastOutcome' = "saved"
    /\ UNCHANGED <<AGENT_URL, fbAgentUrl, sub, estCalls, pushCalls, showDistancePicker,
                   currentActionType, pickerClosedBy, storeVars, universe, routeVars>>

Init ==
    /\ actions = <<>>
    /\ now \in {Day0Start + 12}
    /\ universe = "flow"
    /\ stats = NoStatsRead
    /\ AGENT_URL \in AgentUrlValues
    /\ fbAgentUrl \in {"none", "url", "error"}
    /\ pc = "idle"
    /\ loading = FALSE
    /\ sub = NoSub
    /\ estCalls = 0
    /\ pushCalls = 0
    /\ lastOutcome = "none"
    /\ showDistancePicker = FALSE
    /\ currentActionType = "null"
    /\ pickerClosedBy = "none"
    /\ RouteIdle

Next ==
    \/ \E a \in ActionTypes : HandleActionPress(a)
    \/ \E d \in PickerDistances : HandleDistanceConfirm(d)
    \/ HandleDistanceCancel
    \/ \E o \in EstOutcomes, b \in BodyKinds, f \in Co2FieldValues : AgentResponds(o, b, f)
    \/ PushResolves
    \/ PushRejects
    \/ \E ok \in BOOLEAN : LoadDataCompletes(ok)

Spec == Init /\ [][Next]_vars

\* a collaborator call that is under way ends: the POST (axios gives up after
\* its 10 s timeout at the latest), push(), or the reads of loadData
CallCompletes ==
    \/ \E o \in EstOutcomes, b \in BodyKinds, f \in Co2FieldValues : AgentResponds(o, b, f)
    \/ PushResolves
    \/ PushRejects
    \/ \E ok \in BOOLEAN : LoadDataCompletes(ok)

\* the flow when every collaborator call that is under way ends at some time
SpecLive == Init /\ [][Next]_vars /\ WF_vars(CallCompletes)

-----------------------------------------------------------------------------
(* Properties of the action submission flow *)

\* the response of the submission carries a CO2 field that is a finite number
ResponseCo2IsFiniteNumber == sub.body = "object" /\ NumberIsFinite(sub.co2Field)

\* C1: fail closed: when the response of a submission carries a CO2 field that
\* is missing or is anything but a finite number, push() is not invoked for
\* that submission and the store is as it was when the submission began.
C1_FailClosedOnNonNumericCo2 ==
    (sub.estOutcome = "ok" /\ ~ResponseCo2IsFiniteNumber)
    => (~sub.pushInvoked /\ Len(actions) = sub.lenAtStart)

\* C2: push() is invoked only in a submission whose estimation call returned
\* (a 2xx response) and whose value passed logAction's guard (Number(field) is
\* finite); a submission whose estimation call failed, by configuration,
\* timeout, unreachable host or HTTP status, invokes no push; and the store
\* grows only by a submission's push.
C2_PersistOnlyAfterValidatedEstimate ==
    /\ sub.pushInvoked =>
          /\ sub.estOutcome = "ok"
          /\ sub.body # "null"
          /\ NumberIsFinite(ToNumber(IF sub.body = "object" THEN sub.co2Field ELSE Undefined))
    /\ sub.estOutcome \notin {"ok", "none"} => ~sub.pushInvoked
    /\ ~sub.pushInvoked => (pc \notin {"pushing", "reloading"} /\ Len(actions) = sub.lenAtStart)
    /\ Len(actions) <= pushCalls

\* a submission whose estimation call ended in an HTTP 502 has finished, and
\* nothing was pushed or stored
C2_Witness ==
    /\ sub.n >= 1
    /\ sub.estOutcome = "http_502"
    /\ pc = "idle"
    /\ lastOutcome = "http_502"
    /\ pushCalls = 0
    /\ actions = <<>>

-----------------------------------------------------------------------------
(* Properties of the gamification engine *)

\* the reconciled pounds of the records of a history, added from the last
\* record back to the first
RECURSIVE SumReconciled(_)
SumReconciled(acts) ==
    IF acts = <<>> THEN N(0)
    ELSE JsAdd(actionCo2Lb(Head(acts)), SumReconciled(Tail(acts)))

\* C6: the total getUserStats reports is the sum, over all records it read, of
\* the reconciled pounds value of each record.
C6_TotalIsSumOfReconciled ==
    stats.read = "ok" => stats.val.totalCo2Saved = SumReconciled(stats.of)

\* a total was computed over a history holding a record with a pounds field
\* that disagrees with its kilograms and a record with kilograms alone
C6_Witness ==
    /\ stats.read = "ok"
    /\ Len(stats.of) >= 2
    /\ \E i, j \in 1..Len(stats.of) :
          /\ stats.of[i].co2_saved_lb = N(3 * Scale) /\ stats.of[i].co2_saved_kg = N(Scale)
          /\ stats.of[j].co2_saved_lb = Undefined /\ stats.of[j].co2_saved_kg = N(2 * Scale)
    /\ stats.val.totalCo2Saved.t = "num"
    /\ stats.val.totalCo2Saved.v >= 3 * Scale + 440924

\* the value the unit reconciliation rule gives a record: the pounds field when
\* it is a finite number, else the kilograms field times 2.20462, a missing or
\* non-numeric kilograms field counting as zero
ReconciliationRule(a) ==
    IF NumberIsFinite(a.co2_saved_lb)
    THEN a.co2_saved_lb
    ELSE JsMulConst(IF a.co2_saved_kg.t \in {"num", "pinf", "ninf"} THEN a.co2_saved_kg ELSE N(0),
                    KG_TO_LB)

\* C7: for every record of the store, actionCo2Lb returns the pounds field
\* verbatim when it is a finite number and otherwise the kilograms field times
\* 2.20462, a missing or non-numeric kilograms field counting as zero.
C7_ReconciliationPrecedence ==
    \A i \in 1..Len(actions) : actionCo2Lb(actions[i]) = ReconciliationRule(actions[i])

\* C8: for every record of the store, whatever its pounds and kilograms fields
\* hold, actionCo2Lb returns a finite number, and a non-negative one when the
\* fields are non-negative.
C8_ReconciliationFinite ==
    \A i \in 1..Len(actions) :
        /\ NumberIsFinite(actionCo2Lb(actions[i]))
        /\ (/\ actions[i].co2_saved_lb.t = "num" => actions[i].co2_saved_lb.v >= 0
            /\ actions[i].co2_saved_kg.t = "num" => actions[i].co2_saved_kg.v >= 0)
           => actionCo2Lb(actions[i]).v >= 0

\* the local calendar days, as day numbers, on which a history has a record
ActiveDayNumbers(acts) == {LocalDayNumber(acts[i].ts) : i \in 1..Len(acts)}

\* the greatest element of a non-empty set of integers
MaxOf(S) == CHOOSE x \in S : \A y \in S : y <= x

\* the length of the maximal run of consecutive days of S that ends at day D
RunEndingAt(S, D) ==
    CHOOSE k \in 1..Cardinality(S) :
        /\ \A j \in 0..(k - 1) : (D - j) \in S
        /\ (D - k) \notin S

\* C10: when the most recent active local day D of the history read is today
\* or yesterday, the streak is the length of the maximal run of consecutive
\* active days ending at D, whatever the number and order of the records.
C10_StreakIsRunEndingAtLastDay ==
    (/\ stats.read = "ok"
     /\ stats.of # <<>>
     /\ MaxOf(ActiveDayNumbers(stats.of)) \in
            {LocalDayNumber(stats.at), LocalDayNumber(stats.at) - 1})
    => stats.val.streak =
           RunEndingAt(ActiveDayNumbers(stats.of), MaxOf(ActiveDayNumbers(stats.of)))

\* records today, yesterday (twice, the later one first) and three days ago
\* give a streak of 2
C10_Witness ==
    /\ stats.read = "ok"
    /\ Len(stats.of) = 3
    /\ ActiveDayNumbers(stats.of) =
           {LocalDayNumber(stats.at), LocalDayNumber(stats.at) - 1, LocalDayNumber(stats.at) - 3}
    /\ stats.of[1].ts < stats.of[2].ts
    /\ stats.val.streak = 2

\* floor(x / 5) + 1 for a finite x: k + 1 for the integer k with 5k <= x < 5(k+1)
LevelRule(x) ==
    N(Scale * (1 + CHOOSE k \in -50..50 : 5 * k * Scale <= x.v /\ x.v < 5 * (k + 1) * Scale))

\* C9: the level in UserStats is floor(totalCo2SavedLb / 5) + 1 and is at least
\* 1 for every action history.
C9_LevelIsFloorPlusOneAndAtLeastOne ==
    stats.read # "none" =>
        /\ stats.val.level.t = "num"
        /\ stats.val.totalCo2Saved.t = "num"
        /\ stats.val.level = LevelRule(stats.val.totalCo2Saved)
        /\ stats.val.level.v >= Scale

C12_ActiveTodayOrYesterdayKeepsStreak ==
    (/\ stats.read = "ok"
     /\ \E i \in 1..Len(stats.of) :
            LocalDayNumber(stats.of[i].ts) \in
                {LocalDayNumber(stats.at), LocalDayNumber(stats.at) - 1})
    => stats.val.streak >= 1

\* the ids of the badges of a badge list that are marked earned
EarnedIds(badges) == {badges[i].id : i \in {j \in 1..Len(badges) : badges[j].earned}}

\* total >= threshold for a total in pounds and a threshold in whole pounds
AtLeast(total, threshold) ==
    \/ total.t = "pinf"
    \/ total.t = "num" /\ total.v >= threshold * Scale

C14_EmptyHistory ==
    (stats.read = "ok" /\ stats.of = <<>>)
    => /\ stats.val.streak = 0
       /\ stats.val.totalCo2Saved = N(0)
       /\ stats.val.todayCo2Saved = N(0)
       /\ stats.val.level = N(Scale)
       /\ Len(stats.val.badges) = Len(BADGE_DEFINITIONS)
       /\ EarnedIds(stats.val.badges) = {}

\* the store was read while it held no record
C14_Witness ==
    /\ stats.read = "ok"
    /\ stats.of = <<>>
    /\ actions = <<>>
    /\ stats.val.level = N(Scale)

\* the records of a history stamped on the local calendar day of time t
RecordsOfDay(acts, t) ==
    SelectSeq(acts, LAMBDA a : LocalDayNumber(a.ts) = LocalDayNumber(t))

\* C15: today's CO2 of a UserStats is the sum of the reconciled pounds of
\* exactly the records read whose timestamp falls on the local calendar day of
\* the evaluation time; records of other days, earlier or later, add nothing.
C15_TodayIsSumOfTodaysRecords ==
    stats.read = "ok" =>
        stats.val.todayCo2Saved = SumReconciled(RecordsOfDay(stats.of, stats.at))

\* evaluated in the first hour of a local day over a record of that hour, a
\* record of the hour before it and a record of the next day: only the first
\* counts for today
C15_Witness ==
    /\ stats.read = "ok"
    /\ stats.at = Day0Start
    /\ {stats.of[i].ts : i \in 1..Len(stats.of)} = {Day0Start - 1, Day0Start, Day0Start + 36}
    /\ stats.val.todayCo2Saved = actionCo2Lb(stats.of[CHOOSE i \in 1..3 : stats.of[i].ts = Day0Start])
    /\ stats.val.todayCo2Saved # stats.val.totalCo2Saved

-----------------------------------------------------------------------------
(* Properties of the agent client and of configuration *)

\* the transport failure a finished estimation call ran into, if any: no
\* answer within the timeout, no response at all, a 4xx/5xx status, or a 2xx
\* response whose body is not the JSON the agent is to send
TransportFailure(outcome, body) ==
    CASE outcome = "timeout" -> "timeout"
      [] outcome = "no_response" -> "unreachable"
      [] outcome \in {"http_detail", "http_502", "http_404", "http_other"} -> "http_status"
      [] outcome = "ok" /\ body = "text" -> "malformed_body"
      [] OTHER -> "none"

\* the failure category an error thrown by getCo2Savings tells its caller
CategoryOfError(error) ==
    CASE error = "request_timed_out" -> "timeout"
      [] error = "cannot_reach_agent" -> "unreachable"
      [] error \in {"backend_detail", "server_unreachable_status", "endpoint_not_found",
                    "agent_returned_error_status"} -> "http_status"
      [] OTHER -> "unclassified"

\* C17: for every estimation call that ran into a transport failure (timeout,
\* unreachable, HTTP 4xx/5xx status, malformed response body) getCo2Savings
\* throws, and the error it throws tells that category and no other.
C17_TransportFailuresClassified ==
    (sub.estOutcome \notin {"none", "pending", "config_error"}
        /\ TransportFailure(sub.estOutcome, sub.body) # "none")
    => /\ getCo2Savings(sub.estOutcome, sub.body).threw
       /\ CategoryOfError(getCo2Savings(sub.estOutcome, sub.body).error) =
              TransportFailure(sub.estOutcome, sub.body)

\* C18: when AGENT_URL is empty or does not start with http:// or https://, no
\* estimation request is sent and nothing is persisted.
C18_NoAgentUrlNoSubmission ==
    (AGENT_URL = "" \/ ~StartsWithHttp(AGENT_URL))
    => (estCalls = 0 /\ pushCalls = 0 /\ actions = <<>>)

\* C19: every record of the store written by the submission flow has a finite,
\* non-negative value under actionCo2Lb.
C19_FlowRecordsNonNegative ==
    \A i \in 1..Len(actions) :
        actions[i].by = "flow" =>
            /\ NumberIsFinite(actionCo2Lb(actions[i]))
            /\ actionCo2Lb(actions[i]).v >= 0

-----------------------------------------------------------------------------
(* Properties of getUserStats as a whole *)

\* a UserStats with every member present and of its declared type: three
\* numbers, a count of days, and the badges of the catalog each marked earned
\* or not
DefinedUserStats(v) ==
    /\ TypeofNumber(v.totalCo2Saved)
    /\ TypeofNumber(v.todayCo2Saved)
    /\ TypeofNumber(v.level)
    /\ v.streak \in Nat
    /\ Len(v.badges) = Len(BADGE_DEFINITIONS)
    /\ \A i \in 1..Len(v.badges) : v.badges[i].earned \in BOOLEAN

\* C20: every call of getUserStats resolves with a UserStats whose members are
\* all present, whatever the history holds; when reading the store fails it
\* resolves with total 0, today 0, streak 0, level 1 and every badge unearned.
C20_GetUserStatsAlwaysResolves ==
    stats.read # "none" =>
        /\ stats.read \in {"ok", "failed"}
        /\ DefinedUserStats(stats.val)
        /\ stats.read = "failed" =>
              /\ stats.val.totalCo2Saved = N(0)
              /\ stats.val.todayCo2Saved = N(0)
              /\ stats.val.streak = 0
              /\ stats.val.level = N(Scale)
              /\ EarnedIds(stats.val.badges) = {}

\* the read of a store holding two records failed and getUserStats resolved
C20_Witness ==
    /\ stats.read = "failed"
    /\ Len(actions) = 2
    /\ stats.val.level = N(Scale)
    /\ Len(stats.val.badges) = Len(BADGE_DEFINITIONS)

-----------------------------------------------------------------------------
(* Properties of the order of a submission's steps *)

\* where a submission stands agrees with what it has done so far
StepsInSequence ==
    /\ estCalls <= sub.n /\ pushCalls <= estCalls /\ Len(actions) <= pushCalls
    /\ pc = "estimating" => (~sub.pushInvoked /\ Len(actions) = sub.lenAtStart)
    /\ pc = "pushing" =>
          /\ sub.pushInvoked /\ sub.estOutcome = "ok"
          /\ NumberIsFinite(ToNumber(IF sub.body = "object" THEN sub.co2Field ELSE Undefined))
          /\ Len(actions) = sub.lenAtStart
    /\ pc = "reloading" => (sub.pushInvoked /\ Len(actions) = sub.lenAtStart + 1)
    /\ (pc = "idle" /\ lastOutcome \notin {"none", "saved"}) =>
          (~(sub.pushInvoked /\ lastOutcome # "push_failed") /\ Len(actions) = sub.lenAtStart)

\* every step is taken from the step before it, and once
EachStepOnce ==
    /\ estCalls' # estCalls => (estCalls' = estCalls + 1 /\ sub'.n = sub.n + 1 /\ pc = "idle")
    /\ pushCalls' # pushCalls => (pushCalls' = pushCalls + 1 /\ pc = "estimating")
    /\ actions' # actions =>
          (pc = "pushing" /\ pc' = "reloading" /\ Len(actions') = Len(actions) + 1)
    /\ stats' # stats => (pc = "reloading" /\ Len(actions) = sub.lenAtStart + 1)

\* C21: a submission sends one estimation request, at its start and never
\* again; invokes push() once, from the estimation step and only on a response
\* that passed the guard; appends one record, from the push step; and reloads
\* the statistics only after that append.  A failed submission appends nothing
\* and reloads nothing.
C21_StepsInSequenceAtMostOnce == []StepsInSequence /\ [][EachStepOnce]_vars

\* a submission went through estimation, push and reload, each once
C21_Witness ==
    /\ pc = "idle" /\ lastOutcome = "saved"
    /\ estCalls = 1 /\ pushCalls = 1
    /\ Len(actions) = sub.lenAtStart + 1
    /\ stats.read = "ok" /\ stats.of = actions /\ stats.of # <<>>

\* lb is kg * 2.20462, for a kg of whole thousandths (the product is then exact
\* in the model's five decimals)
PoundsOfKilograms(kg, lb) ==
    /\ kg.v % 1000 = 0
    /\ lb.v * 100 = (kg.v \div 1000) * 220462

\* C22: every record of the store written by logAction holds both units: a
\* finite co2_saved_kg, which for the record of the submission at hand is the
\* number read from the collaborator's co2_saved_kg, and a co2_saved_lb that
\* is that co2_saved_kg times 2.20462; so the engine's pounds value of the
\* record is its kilograms times 2.20462 whichever field it reads.
C22_BothUnitsStoredAndConsistent ==
    /\ \A i \in 1..Len(actions) :
          actions[i].by = "flow" =>
              /\ NumberIsFinite(actions[i].co2_saved_kg)
              /\ NumberIsFinite(actions[i].co2_saved_lb)
              /\ PoundsOfKilograms(actions[i].co2_saved_kg, actions[i].co2_saved_lb)
              /\ PoundsOfKilograms(actions[i].co2_saved_kg, actionCo2Lb(actions[i]))
    /\ (sub.pushInvoked /\ Len(actions) = sub.lenAtStart + 1) =>
          actions[Len(actions)].co2_saved_kg = ToNumber(sub.co2Field)

\* the collaborator answered 1 kg and the record holds 1 kg and 2.20462 lb
C22_Witness ==
    /\ Len(actions) = 1
    /\ actions[1].by = "flow"
    /\ sub.co2Field = N(Scale)
    /\ actions[1].co2_saved_kg = N(Scale)
    /\ actions[1].co2_saved_lb = N(220462)

-----------------------------------------------------------------------------
(* Leaderboard and engine on the same history *)

\* two totals in pounds agree up to the rounding of the sums (1e-4 lb)
SameTotal(a, b) ==
    \/ a = b
    \/ a.t = "num" /\ b.t = "num" /\ a.v - b.v <= 10 /\ b.v - a.v <= 10

\* C25: for every history read, the total of the entry "You" on the
\* leaderboard equals the total the engine computes for the same history.
C25_LeaderboardTotalEqualsEngineTotal ==
    stats.read = "ok" => SameTotal(LeaderboardUserTotal(stats.of), stats.val.totalCo2Saved)

-----------------------------------------------------------------------------
(* Growth of the statistics along a history *)

\* every record of the history has a finite, non-negative reconciled value
AllNonNegative(acts) ==
    \A i \in 1..Len(acts) :
        NumberIsFinite(actionCo2Lb(acts[i])) /\ actionCo2Lb(acts[i]).v >= 0

\* total, level and badges of the first k records of the history read; for the
\* whole history, those getUserStats returned
GrowthAt(k) ==
    IF k = Len(stats.of)
    THEN [total |-> stats.val.totalCo2Saved, level |-> stats.val.level,
          badges |-> stats.val.badges]
    ELSE LET total == calculateTotalCo2(SubSeq(stats.of, 1, k))
         IN  [total |-> total, level |-> calculateLevel(total),
              badges |-> calculateBadges(total)]

\* C26: along a history of records with non-negative values, each append
\* leaves the total, the level and the set of earned badges at least what they
\* were; and in the statistics returned a badge is earned whenever a badge
\* with a threshold at least as high is earned.
C26_StatsGrowWithAppends ==
    (stats.read = "ok" /\ AllNonNegative(stats.of)) =>
        /\ \A k \in 0..(Len(stats.of) - 1) :
              /\ GrowthAt(k).total.v <= GrowthAt(k + 1).total.v
              /\ GrowthAt(k).level.v <= GrowthAt(k + 1).level.v
              /\ EarnedIds(GrowthAt(k).badges) \subseteq EarnedIds(GrowthAt(k + 1).badges)
        /\ \A i, j \in 1..Len(stats.val.badges) :
              (stats.val.badges[j].earned
                   /\ stats.val.badges[i].threshold <= stats.val.badges[j].threshold)
              => stats.val.badges[i].earned

\* a record of 3 lb, then one of 5 lb: the level goes from 1 to 2 and the
\* committed badge is added to the starter badge
C26_Witness ==
    /\ stats.read = "ok"
    /\ Len(stats.of) = 2
    /\ actionCo2Lb(stats.of[1]) = N(3 * Scale)
    /\ actionCo2Lb(stats.of[2]) = N(5 * Scale)
    /\ GrowthAt(1).level = N(Scale)
    /\ stats.val.level = N(2 * Scale)
    /\ EarnedIds(GrowthAt(1).badges) = {"starter"}
    /\ EarnedIds(stats.val.badges) = {"starter", "committed"}

-----------------------------------------------------------------------------
(* Properties of the distance picker's callbacks and of the loading flag *)

\* while the picker is closed no action type is pending
NoPendingWhilePickerClosed == ~showDistancePicker => currentActionType = "null"

\* a step that closes the picker through onCancel changes nothing of the
\* submission flow and clears the pending type; a step that starts a bike or
\* walk submission closes the picker through onConfirm and submits the type
\* that was pending with the distance confirmed
CancelAndConfirmSteps ==
    /\ (showDistancePicker /\ ~showDistancePicker' /\ pickerClosedBy' = "onCancel") =>
          /\ sub' = sub /\ pc' = pc /\ loading' = loading
          /\ estCalls' = estCalls /\ pushCalls' = pushCalls /\ actions' = actions
          /\ currentActionType' = "null"
    /\ (sub'.n = sub.n + 1 /\ sub'.actionType \in {"bike", "walk"}) =>
          /\ showDistancePicker /\ ~showDistancePicker'
          /\ pickerClosedBy' = "onConfirm"
          /\ sub'.actionType = currentActionType
          /\ sub'.distance \in PickerDistances

\* C27: handleDistanceCancel sends no estimation request, persists nothing
\* and clears the pending action type, so that no later confirm finds the
\* cancelled action pending; a bike or walk action is submitted only by
\* handleDistanceConfirm, with the distance confirmed.
C27_CancelSubmitsNothing == []NoPendingWhilePickerClosed /\ [][CancelAndConfirmSteps]_vars

\* the picker was opened for a bike or walk action and cancelled: nothing was
\* requested or stored and nothing is pending
C27_Witness ==
    /\ pickerClosedBy = "onCancel"
    /\ ~showDistancePicker
    /\ currentActionType = "null"
    /\ sub.n = 0 /\ estCalls = 0 /\ pushCalls = 0 /\ actions = <<>>

\* C28: loading is true only while a submission is in progress, and whenever
\* it is true it becomes false again, whichever way the submission ends, given
\* that the collaborator calls under way end.
C28_LoadingEventuallyCleared == [](loading => pc # "idle") /\ (loading ~> ~loading)

\* a submission whose push() was rejected has ended with loading false
C28_Witness ==
    /\ pc = "idle"
    /\ ~loading
    /\ sub.pushInvoked
    /\ lastOutcome = "push_failed"
    /\ actions = <<>>

=============================================================================
